---- MODULE Spec2Model ----
(***************************************************************************)
(* classlink-checker: per-language text scanners that extract class        *)
(* declarations and references, a file type dispatcher, and the link graph *)
(* analyzer that computes connectivity statistics.                         *)
(*                                                                         *)
(* Three specifications share the module:                                  *)
(*   SpecLinks     LinkAnalyzer::analyze on bounded (classes, links)       *)
(*   SpecScan      the four scanners, one loop iteration per step          *)
(*   SpecDispatch  UnifiedAnalyzer::detect_file_type / analyze_file        *)
(*   SpecAggregate the caller's merge of per-file results, then analyze    *)
(***************************************************************************)
EXTENDS Integers, Sequences, FiniteSets, TLC

VARIABLES
    all_classes,      \* analyzer input: HashSet<String> of declared names
    all_links,        \* analyzer input: Vec<ClassLink>
    stats,            \* analyzer output: the LinkStatistics of the calls made so far, in call order
    file_type,        \* scanner: the FileType whose scanner runs
    pc,               \* scanner: "scan" inside the loop over the lines, "done" after the return
    line_num,         \* scanner: number of lines consumed so far
    classes,          \* scanner: HashSet<String> of declared names
    links,            \* scanner: Vec<ClassLink> emitted so far
    current_class,    \* scanner: Option<String>, the declaration context
    imported_classes, \* scanner: HashSet<String> of import candidates
    seen_links,       \* scanner (Markdown): HashSet<(String, String)>
    path,             \* dispatcher: the path handed to analyze_file
    content,          \* dispatcher: the text handed to analyze_file, a sequence of lines
    result,           \* dispatcher: the AnalysisResults of the calls made so far, in call order
    files,            \* aggregator: the per-file AnalysisResults, in directory-listing index order
    merged            \* aggregator: the indices of the files merged so far

analyzerVars == <<all_classes, all_links, stats>>

scanVars == <<file_type, pc, line_num, classes, links, current_class, imported_classes, seen_links>>

dispatchVars == <<path, content, result>>

aggregateVars == <<files, merged>>

vars == <<all_classes, all_links, stats, file_type, pc, line_num, classes, links,
          current_class, imported_classes, seen_links, path, content, result,
          files, merged>>

(***************************************************************************)
(* Generic helpers                                                         *)
(***************************************************************************)

\* Option<T>: None is the empty sequence, Some(v) a one-element sequence.
None == <<>>

Some(v) == <<v>>

IsSome(o) == Len(o) = 1

Range(s) == {s[i] : i \in 1..Len(s)}

\* Every iteration order a HashSet / HashMap holding exactly the keys S can have.
Orders(S) == {s \in [1..Cardinality(S) -> S] : \A i, j \in 1..Cardinality(S) : s[i] = s[j] => i = j}

(***************************************************************************)
(* Bounds of the analyzer inputs                                           *)
(***************************************************************************)

\* Longest edge list handed to the analyzer.
MaxLinks == 3

\* Names an aggregated project can declare or refer to.
ClassNames == {"ClassA", "ClassB", "ClassC"}

\* parser.rs ClassLink
ClassLink(from, to, line) == [from_class |-> from, to_class |-> to, line_number |-> line]

\* Edge lists of length n; the analyzer never reads line_number, which is
\* taken to be the position in the list.
LinkLists(n) == {[i \in 1..n |-> ClassLink(p[i][1], p[i][2], i)] : p \in [1..n -> ClassNames \X ClassNames]}

(***************************************************************************)
(* analyzer.rs: LinkAnalyzer::analyze                                      *)
(***************************************************************************)

\* lines 31-40: every declared class starts with zero counts
InitCounts(cls) == [c \in cls |-> [outgoing_links |-> 0, incoming_links |-> 0]]

\* Mutant of CountLink: a link is counted only when both endpoints are declared.
CountLinkBothDeclared(counts, link) ==
    IF link.from_class \in DOMAIN counts /\ link.to_class \in DOMAIN counts
    THEN LET c1 == [counts EXCEPT ![link.from_class].outgoing_links = @ + 1]
         IN  [c1 EXCEPT ![link.to_class].incoming_links = @ + 1]
    ELSE counts

\* Mutant of CountLink: entry().or_insert semantics, an unknown endpoint gets an entry.
CountLinkInsertMissing(counts, link) ==
    LET zero == [outgoing_links |-> 0, incoming_links |-> 0]
        c0 == [c \in DOMAIN counts \cup {link.from_class, link.to_class} |->
                  IF c \in DOMAIN counts THEN counts[c] ELSE zero]
        c1 == [c0 EXCEPT ![link.from_class].outgoing_links = @ + 1]
    IN  [c1 EXCEPT ![link.to_class].incoming_links = @ + 1]

\* Mutant of CountLink: a self link bumps only the outgoing counter.
CountLinkSkipSelfIncoming(counts, link) ==
    LET c1 == IF link.from_class \in DOMAIN counts
              THEN [counts EXCEPT ![link.from_class].outgoing_links = @ + 1]
              ELSE counts
    IN  IF link.to_class \in DOMAIN c1 /\ link.to_class # link.from_class
        THEN [c1 EXCEPT ![link.to_class].incoming_links = @ + 1]
        ELSE c1

\* lines 47-55: get_mut on the source, then get_mut on the target
CountLink(counts, link) ==
    LET c1 == IF link.from_class \in DOMAIN counts
              THEN [counts EXCEPT ![link.from_class].outgoing_links = @ + 1]
              ELSE counts
    IN  IF link.to_class \in DOMAIN c1
        THEN [c1 EXCEPT ![link.to_class].incoming_links = @ + 1]
        ELSE c1

\* Mutant of CountLinksFrom: the loop stops one link early.
CountLinksButLast(counts, ls, i) ==
    LET F[k \in 1..(Len(ls) + 1)] ==
            IF k >= Len(ls) THEN counts ELSE CountLink(F[k + 1], ls[Len(ls) - k])
    IN  IF i >= Len(ls) THEN counts ELSE F[1]

RECURSIVE CountLinksFrom(_, _, _)
\* lines 43-56: the loop over the links, from index i on
CountLinksFrom(counts, ls, i) ==
    IF i > Len(ls) THEN counts
    ELSE CountLinksFrom(CountLink(counts, ls[i]), ls, i + 1)

\* Mutant of LinkedClasses: only the sources are recorded as linked.
LinkedSourcesOnly(ls) == {ls[i].from_class : i \in 1..Len(ls)}

\* lines 44-45: both endpoints of every link
LinkedClasses(ls) ==
    {ls[i].from_class : i \in 1..Len(ls)} \cup {ls[i].to_class : i \in 1..Len(ls)}

\* Mutant of IsolatedClasses: the first class of the iteration is never listed.
IsolatedSkipFirst(set_order, linked) ==
    SelectSeq(IF Len(set_order) = 0 THEN set_order ELSE Tail(set_order), LAMBDA c : c \notin linked)

\* lines 59-63: classes.iter().filter(..).cloned().collect(), in the set's iteration order
IsolatedClasses(set_order, linked) == SelectSeq(set_order, LAMBDA c : c \notin linked)

RECURSIVE MaxByKeyFrom(_, _, _, _)
\* Iterator::max_by_key folded from index i with the best element so far; on equal
\* keys the later element replaces the earlier one.
MaxByKeyFrom(order, keys, i, best) ==
    IF i > Len(order) THEN best
    ELSE MaxByKeyFrom(order, keys, i + 1,
                      IF keys[order[i]] >= keys[best] THEN order[i] ELSE best)

\* Mutant of MaxByKey: the first entry of the iteration is returned unconditionally.
MaxByKeyFirst(order, keys) ==
    IF Len(order) = 0 THEN None ELSE Some(order[1])

\* lines 68, 75: max_by_key over the map's iteration order; None on an empty map
MaxByKey(order, keys) ==
    IF Len(order) = 0 THEN None
    ELSE Some(MaxByKeyFrom(order, keys, 2, order[1]))

\* Mutant of FilterPositive: the zero maximum is reported.
FilterKeepAll(o) == o

\* lines 70, 77: .filter(|(_, count)| *count > 0)
FilterPositive(o) ==
    IF IsSome(o) /\ o[1][2] > 0 THEN o ELSE None

\* lines 66-70 / 73-77: max_by_key, map to (class, count), filter
Extremum(map_order, keys) ==
    LET m == MaxByKey(map_order, keys)
    IN  FilterPositive(IF IsSome(m) THEN Some(<<m[1], keys[m[1]]>>) ELSE None)

\* line 80: classes.len()
TotalClasses(cls) == Cardinality(cls)

\* lines 27-86: the statistics for one iteration order of the class set and one of
\* the count map (both are hash containers: their order is not the caller's).
LinkStatistics(cls, ls, set_order, map_order) ==
    LET class_link_counts == CountLinksFrom(InitCounts(cls), ls, 1)
        linked_classes == LinkedClasses(ls)
    IN  [ total_classes      |-> TotalClasses(cls),
          isolated_classes   |-> IsolatedClasses(set_order, linked_classes),
          class_link_counts  |-> class_link_counts,
          most_linked_class  |-> Extremum(map_order,
                                    [c \in cls |-> class_link_counts[c].incoming_links]),
          most_linking_class |-> Extremum(map_order,
                                    [c \in cls |-> class_link_counts[c].outgoing_links]) ]

(***************************************************************************)
(* Text.  A line is a sequence of tokens; a token is a maximal run of word *)
(* characters (a word), one whitespace character, or one other character.  *)
(* Joining the tokens gives the line's text, so every regex below is       *)
(* matched on the tokens exactly as the regex crate matches it on the      *)
(* characters, for lines over this vocabulary.                             *)
(***************************************************************************)

WS == " "

\* Words of lowercase letters only (keywords included)
LowerWords == {"class", "interface", "import", "from", "using", "export", "public",
               "private", "protected", "internal", "partial", "abstract", "sealed",
               "as", "x", "m", "md"}

\* Words of two or more characters whose first is an uppercase letter: [A-Z]\w+
UpperWords == {"User", "Repo", "MyClass", "BaseClass"}

\* One uppercase letter: a word, uppercase-initial, but no match of [A-Z]\w+
UpperLetters == {"T"}

\* \w+ matched against a whole token
IsWord(t) == t \in LowerWords \cup UpperWords \cup UpperLetters

\* [A-Z]\w+ matched against a whole token
IsUpperWord(t) == t \in UpperWords

\* chars().next().map_or(false, |c| c.is_uppercase()) of a text starting with token t
StartsUppercase(t) == t \in UpperWords \cup UpperLetters

\* The token at position i, "" past the end of the line
Tok(line, i) == IF i \in 1..Len(line) THEN line[i] ELSE ""

RECURSIVE SkipWS(_, _)
\* \s* from position i: the first position at or after i that holds no whitespace
SkipWS(line, i) ==
    IF i <= Len(line) /\ line[i] = WS THEN SkipWS(line, i + 1) ELSE i

RECURSIVE SkipRun(_, _, _)
\* The first position at or after i whose token is not in the set S
SkipRun(line, i, S) ==
    IF i <= Len(line) /\ line[i] \in S THEN SkipRun(line, i + 1, S) ELSE i

RECURSIVE FindTok(_, _, _)
\* The first position at or after i holding token t, Len(line) + 1 when there is none
FindTok(line, i, t) ==
    IF i > Len(line) \/ line[i] = t THEN i ELSE FindTok(line, i + 1, t)

RECURSIVE Join(_)
\* The text of a token sequence
Join(ts) == IF Len(ts) = 0 THEN "" ELSE Head(ts) \o Join(Tail(ts))

\* The tokens a..b of a line (empty when a > b)
Slice(line, a, b) == IF a > b THEN <<>> ELSE SubSeq(line, a, b)

RECURSIVE SplitOn(_, _)
\* str::split(sep) on a token sequence: the pieces between the separators
SplitOn(ts, sep) ==
    LET k == FindTok(ts, 1, sep)
    IN  IF k > Len(ts) THEN <<ts>>
        ELSE <<Slice(ts, 1, k - 1)>> \o SplitOn(Slice(ts, k + 1, Len(ts)), sep)

RECURSIVE TrimEnd(_)
\* The token sequence without its trailing whitespace
TrimEnd(ts) ==
    IF Len(ts) > 0 /\ ts[Len(ts)] = WS THEN TrimEnd(Slice(ts, 1, Len(ts) - 1)) ELSE ts

\* str::trim
Trim(ts) == TrimEnd(Slice(ts, SkipWS(ts, 1), Len(ts)))

\* split_whitespace().next(): the first maximal run of non-whitespace tokens
FirstChunk(ts) ==
    LET a == SkipWS(ts, 1)
    IN  Slice(ts, a, FindTok(ts, a, WS) - 1)

\* The capture of a trailing \s+(.+) whose \s+ starts at position i: <<tokens>> on a
\* match, <<>> on none.  \s+ is greedy and gives one whitespace back to .+ when
\* nothing else follows.
RestAfterSpaces(line, i) ==
    LET r == SkipWS(line, i)
    IN  IF r = i THEN None
        ELSE IF r <= Len(line) THEN Some(Slice(line, r, Len(line)))
        ELSE IF r - i >= 2 THEN Some(<<WS>>)
        ELSE None

RECURSIVE ColonUpperFrom(_, _)
\* captures_iter of :\s*([A-Z]\w+) from position i on
ColonUpperFrom(line, i) ==
    IF i > Len(line) THEN <<>>
    ELSE LET j == SkipWS(line, i + 1)
         IN  IF line[i] = ":" /\ IsUpperWord(Tok(line, j))
             THEN <<line[j]>> \o ColonUpperFrom(line, j + 1)
             ELSE ColonUpperFrom(line, i + 1)

RECURSIVE GenericFrom(_, _)
\* captures_iter of <([A-Z]\w+)> from position i on
GenericFrom(line, i) ==
    IF i > Len(line) THEN <<>>
    ELSE IF line[i] = "<" /\ IsUpperWord(Tok(line, i + 1)) /\ Tok(line, i + 2) = ">"
         THEN <<line[i + 1]>> \o GenericFrom(line, i + 3)
         ELSE GenericFrom(line, i + 1)

(***************************************************************************)
(* Scanner state: the locals of analyze / parse_file                       *)
(***************************************************************************)

\* The locals before the first line
InitScan ==
    [ classes |-> {}, links |-> <<>>, current_class |-> None,
      imported_classes |-> {}, seen_links |-> {} ]

RECURSIVE InsertAll(_, _, _)
\* A loop of HashSet::insert over the pieces: a piece is inserted as its text when
\* its first character is uppercase
InsertAll(set, pieces, i) ==
    IF i > Len(pieces) THEN set
    ELSE InsertAll(IF Len(pieces[i]) > 0 /\ StartsUppercase(pieces[i][1])
                   THEN set \cup {Join(pieces[i])} ELSE set,
                   pieces, i + 1)

\* Vec::iter().any(|l| l.from_class == from && l.to_class == to)
AlreadyExists(ls, from, to) ==
    \E i \in 1..Len(ls) : ls[i].from_class = from /\ ls[i].to_class = to

(***************************************************************************)
(* python_parser.rs                                                        *)
(***************************************************************************)

\* line 15: ^\s*class\s+(\w+)
PyClassRegex(line) ==
    LET i == SkipWS(line, 1)
        j == SkipWS(line, i + 1)
    IN  IF Tok(line, i) = "class" /\ j > i + 1 /\ IsWord(Tok(line, j))
        THEN Some(line[j]) ELSE None

\* line 16: ^\s*import\s+(.+)
PyImportRegex(line) ==
    LET i == SkipWS(line, 1)
    IN  IF Tok(line, i) = "import" THEN RestAfterSpaces(line, i + 1) ELSE None

\* line 17: ^\s*from\s+[\w.]+\s+import\s+(.+)
PyFromImportRegex(line) ==
    LET i == SkipWS(line, 1)
        j == SkipWS(line, i + 1)
        k == SkipRun(line, j, {t \in Range(line) : IsWord(t)} \cup {"."})
        l == SkipWS(line, k)
    IN  IF Tok(line, i) = "from" /\ j > i + 1 /\ k > j /\ l > k /\ Tok(line, l) = "import"
        THEN RestAfterSpaces(line, l + 1) ELSE None

RECURSIVE PyInstantiationFrom(_, _)
\* line 25: captures_iter of \b([A-Z]\w+)\s*\( from position i on
PyInstantiationFrom(line, i) ==
    IF i > Len(line) THEN <<>>
    ELSE LET j == SkipWS(line, i + 1)
         IN  IF IsUpperWord(line[i]) /\ Tok(line, j) = "("
             THEN <<line[i]>> \o PyInstantiationFrom(line, j + 1)
             ELSE PyInstantiationFrom(line, i + 1)

\* lines 21-37: instantiations first, then type hints
PyExtractClassReferences(line) ==
    PyInstantiationFrom(line, 1) \o ColonUpperFrom(line, 1)

\* lines 56-70: the import candidates of one line
PyImports(imported, line) ==
    LET fromImp == PyFromImportRegex(line)
        imp == PyImportRegex(line)
    IN  IF IsSome(fromImp)
        THEN LET pieces == SplitOn(fromImp[1], ",")
             IN  InsertAll(imported, [p \in 1..Len(pieces) |-> FirstChunk(Trim(pieces[p]))], 1)
        ELSE IF IsSome(imp)
        THEN InsertAll(imported, <<imp[1]>>, 1)
        ELSE imported

\* Mutant of PyPushRefs: a reference to the context itself is pushed too.
PyPushRefsWithSelf(ls, from, refs, n, i) ==
    ls \o [k \in 1..(Len(refs) + 1 - i) |-> ClassLink(from, refs[i + k - 1], n)]

RECURSIVE PyPushRefs(_, _, _, _, _)
\* lines 74-82: every reference other than the context itself is pushed
PyPushRefs(ls, from, refs, n, i) ==
    IF i > Len(refs) THEN ls
    ELSE PyPushRefs(IF refs[i] # from THEN Append(ls, ClassLink(from, refs[i], n)) ELSE ls,
                    from, refs, n, i + 1)

\* lines 47-84: the loop body on line number n
PyAnalyzeLine(st, line, n) ==
    LET cls == PyClassRegex(line)
        classes1 == IF IsSome(cls) THEN st.classes \cup {cls[1]} ELSE st.classes
        current1 == IF IsSome(cls) THEN cls ELSE st.current_class
        imported1 == PyImports(st.imported_classes, line)
        links1 == IF IsSome(current1)
                  THEN PyPushRefs(st.links, current1[1], PyExtractClassReferences(line), n, 1)
                  ELSE st.links
    IN  [st EXCEPT !.classes = classes1, !.current_class = current1,
                   !.imported_classes = imported1, !.links = links1]

\* Mutant of PyPostPassFrom: every import candidate is pushed, linked already or not.
PyPostPassAlwaysPush(ls, from, order, i) ==
    ls \o [k \in 1..(Len(order) + 1 - i) |-> ClassLink(from, order[i + k - 1], 1)]

RECURSIVE PyPostPassFrom(_, _, _, _)
\* lines 88-98: the loop over imported_classes in the set's iteration order
PyPostPassFrom(ls, from, order, i) ==
    IF i > Len(order) THEN ls
    ELSE PyPostPassFrom(IF ~AlreadyExists(ls, from, order[i])
                        THEN Append(ls, ClassLink(from, order[i], 1)) ELSE ls,
                        from, order, i + 1)

\* lines 86-101: the links after the post-pass, for one iteration order of the set
PyPostPass(st, order) ==
    IF IsSome(st.current_class)
    THEN [st EXCEPT !.links = PyPostPassFrom(st.links, st.current_class[1], order, 1)]
    ELSE st

(***************************************************************************)
(* typescript_parser.rs                                                    *)
(***************************************************************************)

\* kw\s+(\w+) at position i
KeywordName(line, i, kw) ==
    LET j == SkipWS(line, i + 1)
    IN  IF Tok(line, i) = kw /\ j > i + 1 /\ IsWord(Tok(line, j))
        THEN Some(line[j]) ELSE None

\* ^\s*(?:export\s+)? : the position after the optional export
TsAfterExport(line) ==
    LET i == SkipWS(line, 1)
    IN  IF Tok(line, i) = "export" /\ Tok(line, i + 1) = WS THEN SkipWS(line, i + 1) ELSE i

\* line 15: ^\s*(?:export\s+)?class\s+(\w+)
TsClassRegex(line) == KeywordName(line, TsAfterExport(line), "class")

\* line 16: ^\s*(?:export\s+)?interface\s+(\w+)
TsInterfaceRegex(line) == KeywordName(line, TsAfterExport(line), "interface")

RECURSIVE TsImportRegexFrom(_, _)
\* line 17: import\s*\{([^}]+)\}\s*from, the leftmost match starting at or after i
TsImportRegexFrom(line, i) ==
    IF i > Len(line) THEN None
    ELSE LET j == SkipWS(line, i + 1)
             k == FindTok(line, j + 1, "}")
         IN  IF /\ line[i] = "import"
                /\ Tok(line, j) = "{"
                /\ k <= Len(line)
                /\ k > j + 1
                /\ Tok(line, SkipWS(line, k + 1)) = "from"
             THEN Some(Slice(line, j + 1, k - 1))
             ELSE TsImportRegexFrom(line, i + 1)

RECURSIVE TsConstructorFrom(_, _)
\* line 31: captures_iter of (?:private|public|protected)?\s*\w+:\s*([A-Z]\w+)
TsConstructorFrom(line, i) ==
    IF i > Len(line) THEN <<>>
    ELSE LET j == SkipWS(line, i + 2)
         IN  IF IsWord(line[i]) /\ Tok(line, i + 1) = ":" /\ IsUpperWord(Tok(line, j))
             THEN <<line[j]>> \o TsConstructorFrom(line, j + 1)
             ELSE TsConstructorFrom(line, i + 1)

\* lines 21-43: type annotations, constructor parameters, generics
TsExtractClassReferences(line) ==
    ColonUpperFrom(line, 1) \o TsConstructorFrom(line, 1) \o GenericFrom(line, 1)

\* lines 69-77: the import candidates of one line
TsImports(imported, line) ==
    LET imp == TsImportRegexFrom(line, 1)
    IN  IF IsSome(imp)
        THEN LET pieces == SplitOn(imp[1], ",")
             IN  InsertAll(imported, [p \in 1..Len(pieces) |-> Trim(pieces[p])], 1)
        ELSE imported

RECURSIVE PushAnyRefs(_, _, _, _, _, _)
\* Mutant of PushKnownRefs: the known-name test is left out.
PushAnyRefs(ls, from, refs, known, n, i) ==
    IF i > Len(refs) THEN ls
    ELSE PushAnyRefs(
             IF refs[i] # from /\ ~AlreadyExists(ls, from, refs[i])
             THEN Append(ls, ClassLink(from, refs[i], n)) ELSE ls,
             from, refs, known, n, i + 1)

RECURSIVE PushKnownRefs(_, _, _, _, _, _)
\* typescript_parser.rs 81-93, csharp_parser.rs 87-107: a reference is pushed when it
\* is not the context, is a known name and the pair is not in links yet
PushKnownRefs(ls, from, refs, known, n, i) ==
    IF i > Len(refs) THEN ls
    ELSE PushKnownRefs(
             IF refs[i] # from /\ refs[i] \in known /\ ~AlreadyExists(ls, from, refs[i])
             THEN Append(ls, ClassLink(from, refs[i], n)) ELSE ls,
             from, refs, known, n, i + 1)

\* lines 53-95: the loop body on line number n
TsAnalyzeLine(st, line, n) ==
    LET cls == TsClassRegex(line)
        itf == TsInterfaceRegex(line)
        classes1 == IF IsSome(cls) THEN st.classes \cup {cls[1]} ELSE st.classes
        current1 == IF IsSome(cls) THEN cls ELSE st.current_class
        classes2 == IF IsSome(itf) THEN classes1 \cup {itf[1]} ELSE classes1
        current2 == IF IsSome(itf) THEN itf ELSE current1
        imported1 == TsImports(st.imported_classes, line)
        links1 == IF IsSome(current2)
                  THEN PushKnownRefs(st.links, current2[1], TsExtractClassReferences(line),
                                     imported1 \cup classes2, n, 1)
                  ELSE st.links
    IN  [st EXCEPT !.classes = classes2, !.current_class = current2,
                   !.imported_classes = imported1, !.links = links1]

(***************************************************************************)
(* csharp_parser.rs                                                        *)
(***************************************************************************)

CsVisibility == {"public", "private", "protected", "internal"}

CsModifier == {"partial", "abstract", "sealed"}

\* line 93: the names accepted without a declaration or a using
CsCommonTypes == {"User", "DatabaseContext", "IUserService"}

\* ^\s*(?:public|private|protected|internal)?\s* : the position after the optional visibility
CsAfterVisibility(line) ==
    LET i == SkipWS(line, 1)
    IN  SkipWS(line, IF Tok(line, i) \in CsVisibility THEN i + 1 ELSE i)

\* line 15: ^\s*(?:public|private|protected|internal)?\s*(?:partial|abstract|sealed)?\s*class\s+(\w+)
CsClassRegex(line) ==
    LET i == CsAfterVisibility(line)
    IN  KeywordName(line, SkipWS(line, IF Tok(line, i) \in CsModifier THEN i + 1 ELSE i), "class")

\* line 16: ^\s*(?:public|private|protected|internal)?\s*interface\s+(\w+)
CsInterfaceRegex(line) == KeywordName(line, CsAfterVisibility(line), "interface")

\* line 17: ^\s*using\s+([\w.]+);
CsUsingRegex(line) ==
    LET i == SkipWS(line, 1)
        j == SkipWS(line, i + 1)
        k == SkipRun(line, j, {t \in Range(line) : IsWord(t)} \cup {"."})
    IN  IF Tok(line, i) = "using" /\ j > i + 1 /\ k > j /\ Tok(line, k) = ";"
        THEN Some(Slice(line, j, k - 1)) ELSE None

RECURSIVE CsParamFrom(_, _)
\* line 31: captures_iter of ([A-Z]\w+)\s+\w+ from position i on
CsParamFrom(line, i) ==
    IF i > Len(line) THEN <<>>
    ELSE LET j == SkipWS(line, i + 1)
         IN  IF IsUpperWord(line[i]) /\ j > i + 1 /\ IsWord(Tok(line, j))
             THEN <<line[i]>> \o CsParamFrom(line, j + 1)
             ELSE CsParamFrom(line, i + 1)

RECURSIVE CsPropertyFrom(_, _)
\* line 43: captures_iter of (?:public|private|protected|internal)?\s*([A-Z]\w+)\s+\w+\s*\{
CsPropertyFrom(line, i) ==
    IF i > Len(line) THEN <<>>
    ELSE LET j == SkipWS(line, i + 1)
             k == SkipWS(line, j + 1)
         IN  IF IsUpperWord(line[i]) /\ j > i + 1 /\ IsWord(Tok(line, j)) /\ Tok(line, k) = "{"
             THEN <<line[i]>> \o CsPropertyFrom(line, k + 1)
             ELSE CsPropertyFrom(line, i + 1)

\* lines 21-49: inheritance, parameters, generics, properties
CsExtractClassReferences(line) ==
    ColonUpperFrom(line, 1) \o CsParamFrom(line, 1) \o GenericFrom(line, 1)
        \o CsPropertyFrom(line, 1)

\* lines 61-69: the import candidate of one line, the last dot-separated part
CsImports(imported, line) ==
    LET u == CsUsingRegex(line)
    IN  IF IsSome(u)
        THEN LET parts == SplitOn(u[1], ".")
             IN  InsertAll(imported, <<parts[Len(parts)]>>, 1)
        ELSE imported

\* lines 59-109: the loop body on line number n
CsAnalyzeLine(st, line, n) ==
    LET imported1 == CsImports(st.imported_classes, line)
        cls == CsClassRegex(line)
        itf == CsInterfaceRegex(line)
        classes1 == IF IsSome(cls) THEN st.classes \cup {cls[1]} ELSE st.classes
        current1 == IF IsSome(cls) THEN cls ELSE st.current_class
        classes2 == IF IsSome(itf) THEN classes1 \cup {itf[1]} ELSE classes1
        current2 == IF IsSome(itf) THEN itf ELSE current1
        links1 == IF IsSome(current2)
                  THEN PushKnownRefs(st.links, current2[1], CsExtractClassReferences(line),
                                     classes2 \cup imported1 \cup CsCommonTypes, n, 1)
                  ELSE st.links
    IN  [st EXCEPT !.classes = classes2, !.current_class = current2,
                   !.imported_classes = imported1, !.links = links1]

(***************************************************************************)
(* parser.rs: MarkdownParser                                               *)
(***************************************************************************)

\* Words that end in "Class" after at least one more word character: \w+Class
ClassSuffixWords == {"MyClass", "BaseClass"}

\* line 27: ^#\s+(\w+)
MdHeaderRegex(line) == KeywordName(line, 1, "#")

RECURSIVE MdLinkRegexFrom(_, _)
\* line 31: captures_iter of \[([^\]]+)\]\(([^)]+\.md)\) from position i on, the
\* second capture of every match
MdLinkRegexFrom(line, i) ==
    IF i > Len(line) THEN <<>>
    ELSE LET j == FindTok(line, i + 1, "]")
             k == FindTok(line, j + 2, ")")
         IN  IF /\ line[i] = "["
                /\ j <= Len(line)
                /\ j > i + 1
                /\ Tok(line, j + 1) = "("
                /\ k <= Len(line)
                /\ k - 3 >= j + 2
                /\ Tok(line, k - 2) = "."
                /\ Tok(line, k - 1) = "md"
             THEN <<Slice(line, j + 2, k - 1)>> \o MdLinkRegexFrom(line, k + 1)
             ELSE MdLinkRegexFrom(line, i + 1)

RECURSIVE TrimEndMd(_)
\* line 71: trim_end_matches(".md"), every trailing ".md" is removed
TrimEndMd(ts) ==
    IF Len(ts) >= 2 /\ ts[Len(ts) - 1] = "." /\ ts[Len(ts)] = "md"
    THEN TrimEndMd(Slice(ts, 1, Len(ts) - 2)) ELSE ts

\* line 35: captures_iter of \b(\w+Class)\b
MdCodeClassRegex(line) == SelectSeq(line, LAMBDA t : t \in ClassSuffixWords)

\* line 94: line.contains("[name]")
ContainsBracketed(line, name) ==
    \E i \in 1..Len(line) : line[i] = "[" /\ Tok(line, i + 1) = name /\ Tok(line, i + 2) = "]"

\* Mutant of IsValidClassReference: the bracket test is left out.
IsValidIgnoringBrackets(class_name, from_class, line) == class_name # from_class

\* lines 93-95
IsValidClassReference(class_name, from_class, line) ==
    class_name # from_class /\ ~ContainsBracketed(line, class_name)

\* lines 97-114
AddLinkIfNew(st, from_class, to_class, line_number) ==
    IF <<from_class, to_class>> \notin st.seen_links
    THEN [st EXCEPT !.seen_links = @ \cup {<<from_class, to_class>>},
                    !.links = Append(@, ClassLink(from_class, to_class, line_number))]
    ELSE st

RECURSIVE ProcessMarkdownLinksFrom(_, _, _, _, _)
\* lines 61-75, over the link paths caps from index i on
ProcessMarkdownLinksFrom(st, caps, from_class, line_number, i) ==
    IF i > Len(caps) THEN st
    ELSE ProcessMarkdownLinksFrom(
             AddLinkIfNew(st, from_class, Join(TrimEndMd(caps[i])), line_number),
             caps, from_class, line_number, i + 1)

RECURSIVE ProcessCodeClassReferencesFrom(_, _, _, _, _, _)
\* lines 77-91, over the mentions caps from index i on
ProcessCodeClassReferencesFrom(st, caps, line, from_class, line_number, i) ==
    IF i > Len(caps) THEN st
    ELSE ProcessCodeClassReferencesFrom(
             IF IsValidClassReference(caps[i], from_class, line)
             THEN AddLinkIfNew(st, from_class, caps[i], line_number) ELSE st,
             caps, line, from_class, line_number, i + 1)

\* Mutant of ParseFileLine: the references of a header line are attributed to the
\* context of the lines before it.
ParseFileLineOldContext(st, line, n) ==
    LET hdr == MdHeaderRegex(line)
        st1 == IF IsSome(st.current_class)
               THEN LET st2 == ProcessMarkdownLinksFrom(st, MdLinkRegexFrom(line, 1),
                                                        st.current_class[1], n, 1)
                    IN  ProcessCodeClassReferencesFrom(st2, MdCodeClassRegex(line), line,
                                                       st.current_class[1], n, 1)
               ELSE st
    IN  IF IsSome(hdr) THEN [st1 EXCEPT !.current_class = hdr] ELSE st1

\* lines 43-52: the loop body of parse_file on line number n
ParseFileLine(st, line, n) ==
    LET hdr == MdHeaderRegex(line)
        st1 == IF IsSome(hdr) THEN [st EXCEPT !.current_class = hdr] ELSE st
    IN  IF IsSome(st1.current_class)
        THEN LET st2 == ProcessMarkdownLinksFrom(st1, MdLinkRegexFrom(line, 1),
                                                 st1.current_class[1], n, 1)
             IN  ProcessCodeClassReferencesFrom(st2, MdCodeClassRegex(line), line,
                                                st1.current_class[1], n, 1)
        ELSE st1

\* Mutant of ExtractClassesLine: a header that repeats a known name, or any header
\* after the first, is not recorded.
ExtractFirstClassOnly(st, line) ==
    LET hdr == MdHeaderRegex(line)
    IN  IF IsSome(hdr) /\ st.classes = {} THEN [st EXCEPT !.classes = @ \cup {hdr[1]}] ELSE st

\* lines 119-123: the loop body of extract_classes
ExtractClassesLine(st, line) ==
    LET hdr == MdHeaderRegex(line)
    IN  IF IsSome(hdr) THEN [st EXCEPT !.classes = @ \cup {hdr[1]}] ELSE st

\* file_analyzer.rs 49-54: extract_classes and parse_file fold the same lines of the
\* same content independently, so one step takes both loops over one line
MdAnalyzeLine(st, line, n) == ParseFileLine(ExtractClassesLine(st, line), line, n)

(***************************************************************************)
(* file_analyzer.rs: UnifiedAnalyzer                                       *)
(***************************************************************************)

FileTypes == {"Markdown", "Python", "TypeScript", "CSharp", "Unknown"}

\* Path::file_name: the last component that is neither empty nor ".", unless it is
\* ".."; a path is a token sequence over "/", "." and words
FileName(p) ==
    LET comps == SplitOn(p, "/")
        normal == {i \in 1..Len(comps) : comps[i] # <<>> /\ comps[i] # <<".">>}
    IN  IF normal = {} THEN None
        ELSE LET c == comps[CHOOSE i \in normal : \A j \in normal : j <= i]
             IN  IF c = <<".", ".">> THEN None ELSE Some(c)

\* Path::extension with to_str: the text after the last dot of the file name, when
\* something stands before that dot
Extension(p) ==
    LET f == FileName(p)
    IN  IF ~IsSome(f) THEN None
        ELSE LET name == f[1]
                 dots == {i \in 1..Len(name) : name[i] = "."}
             IN  IF dots = {} THEN None
                 ELSE LET k == CHOOSE i \in dots : \A j \in dots : j <= i
                      IN  IF k = 1 THEN None
                          ELSE Some(Join(Slice(name, k + 1, Len(name))))

\* Mutant of DetectFileType: the extension is compared without regard to case.
DetectFileTypeIgnoreCase(p) ==
    LET ext == Extension(p)
    IN  IF ext \in {Some("md"), Some("MD")} THEN "Markdown"
        ELSE IF ext = Some("py") THEN "Python"
        ELSE IF ext = Some("ts") \/ ext = Some("tsx") THEN "TypeScript"
        ELSE IF ext = Some("cs") THEN "CSharp"
        ELSE "Unknown"

\* lines 34-43
DetectFileType(p) ==
    LET ext == Extension(p)
    IN  IF ext = Some("md") THEN "Markdown"
        ELSE IF ext = Some("py") THEN "Python"
        ELSE IF ext = Some("ts") \/ ext = Some("tsx") THEN "TypeScript"
        ELSE IF ext = Some("cs") THEN "CSharp"
        ELSE "Unknown"

\* One iteration of the selected scanner's loop over content.lines()
AnalyzeLine(ft, st, line, n) ==
    CASE ft = "Markdown"   -> MdAnalyzeLine(st, line, n)
      [] ft = "Python"     -> PyAnalyzeLine(st, line, n)
      [] ft = "TypeScript" -> TsAnalyzeLine(st, line, n)
      [] ft = "CSharp"     -> CsAnalyzeLine(st, line, n)
      [] OTHER             -> st

RECURSIVE ScanFrom(_, _, _, _)
\* The scanner's loop over the lines of a content, from line i on
ScanFrom(ft, st, text, i) ==
    IF i > Len(text) THEN st
    ELSE ScanFrom(ft, AnalyzeLine(ft, st, text[i], i), text, i + 1)

\* Mutant of AfterLoop: the C# scanner runs the import post-pass too.
AfterLoopWithCSharpPostPass(ft, st) ==
    IF ft \in {"Python", "CSharp"}
    THEN {PyPostPass(st, order) : order \in Orders(st.imported_classes)}
    ELSE {st}

\* What follows the loop: the Python post-pass, in every iteration order of the
\* import set; nothing for the other scanners
AfterLoop(ft, st) ==
    IF ft = "Python"
    THEN {PyPostPass(st, order) : order \in Orders(st.imported_classes)}
    ELSE {st}

\* AnalysisResult { classes, links }
AnalysisResult(st) == [classes |-> st.classes, links |-> st.links]

\* lines 45-75: the results analyze_file can return
AnalyzeFileResults(text, p) ==
    LET ft == DetectFileType(p)
    IN  IF ft = "Unknown" THEN {[classes |-> {}, links |-> <<>>]}
        ELSE {AnalysisResult(st) : st \in AfterLoop(ft, ScanFrom(ft, InitScan, text, 1))}

(***************************************************************************)
(* tests/integration_test.rs: the caller's aggregation of per-file results *)
(***************************************************************************)

\* Mutant of Extend: the declarations of the file replace the ones gathered so far.
ExtendReplacingClasses(acc, r) ==
    [classes |-> r.classes, links |-> acc.links \o r.links]

\* lines 76-77: all_classes.extend(result.classes); all_links.extend(result.links)
Extend(acc, r) ==
    [classes |-> acc.classes \cup r.classes, links |-> acc.links \o r.links]

RECURSIVE AggregateFrom(_, _, _)
\* lines 67-79: the loop over the files' results rs, from index i on
AggregateFrom(acc, rs, i) ==
    IF i > Len(rs) THEN acc ELSE AggregateFrom(Extend(acc, rs[i]), rs, i + 1)

(***************************************************************************)
(* Inputs                                                                  *)
(***************************************************************************)

\* Most files an aggregated project holds.
MaxFiles == 2

\* Longest edge list of one file's result handed to the aggregation.
MaxFileLinks == 1

\* Names the files of an aggregated project declare and refer to
ProjectNames == {"ClassA", "ClassB"}

\* Per-file results: the source of every edge is declared in the same file
FileResults ==
    {[classes |-> c, links |-> l] :
        <<c, l>> \in {x \in (SUBSET ProjectNames) \X UNION {LinkLists(n) : n \in 0..MaxFileLinks} :
                         \A i \in 1..Len(x[2]) : /\ x[2][i].from_class \in x[1]
                                                 /\ x[2][i].to_class \in ProjectNames}}

\* Most lines a scanned file holds.
MaxLines == 4

\* Longest path, in tokens.
MaxPathLen == 3

\* Names used in the Python, TypeScript and C# lines
CodeNames == {"User", "Repo"}

\* Names used in the Markdown lines
DocNames == {"MyClass", "BaseClass", "User"}

PythonLines ==
    {<<>>}
    \cup {<<"class", WS, n, ":">> : n \in CodeNames}
    \cup {<<WS, "class", WS, n, "(", ")", ":">> : n \in CodeNames}
    \cup {<<"import", WS, n>> : n \in CodeNames}
    \cup {<<"from", WS, "m", WS, "import", WS, n>> : n \in CodeNames}
    \cup {<<"from", WS, "m", ".", "x", WS, "import", WS, "User", ",", WS, "Repo", WS, "as", WS, "T">>}
    \cup {<<WS, "x", "=", n, "(", ")">> : n \in CodeNames}
    \cup {<<WS, "x", ":", WS, n>> : n \in CodeNames}
    \cup {<<WS, "x", ":", WS, n, "=", n, "(", ")">> : n \in CodeNames}
    \cup {<<"import", WS, "User", ",", WS, "Repo">>, <<WS, "x", "=", "T", "(", ")">>}

TypeScriptLines ==
    {<<>>}
    \cup {<<"export", WS, "class", WS, n, WS, "{">> : n \in CodeNames}
    \cup {<<"interface", WS, n, WS, "{">> : n \in CodeNames}
    \cup {<<"import", WS, "{", WS, n, WS, "}", WS, "from", WS, "x">> : n \in CodeNames}
    \cup {<<"import", WS, "{", "User", ",", WS, "Repo", WS, "as", WS, "T", "}", WS, "from", WS, "x">>}
    \cup {<<WS, "x", ":", WS, n>> : n \in CodeNames}
    \cup {<<WS, "x", "<", n, ">">> : n \in CodeNames}
    \cup {<<"class", WS, "User", WS, "{", "x", ":", WS, "Repo", "}">>,
          <<"class", WS, "Repo", WS, "{", "x", ":", WS, "User", "}">>}

CSharpLines ==
    {<<>>}
    \cup {<<"using", WS, "x", ".", n, ";">> : n \in CodeNames}
    \cup {<<"public", WS, "class", WS, n>> : n \in CodeNames}
    \cup {<<"public", WS, "interface", WS, n>> : n \in CodeNames}
    \cup {<<"class", WS, "User", WS, ":", WS, "Repo">>,
          <<"class", WS, "Repo", WS, ":", WS, "User">>}
    \cup {<<WS, n, WS, "x", ";">> : n \in CodeNames}
    \cup {<<WS, "public", WS, n, WS, "x", WS, "{">> : n \in CodeNames}
    \cup {<<WS, "x", "<", n, ">">> : n \in CodeNames}
    \cup {<<"using", WS, "Repo", ";">>, <<"internal", WS, "sealed", WS, "class", WS, "T">>}

MarkdownLines ==
    {<<>>, <<"#", "#", WS, "x">>}
    \cup {<<"#", WS, n>> : n \in DocNames}
    \cup {<<"[", n, "]", "(", n, ".", "md", ")">> : n \in DocNames}
    \cup {<<"[", "x", "]", "(", n, ".", "md", ")">> : n \in DocNames}
    \cup {<<"x", WS, n>> : n \in DocNames}
    \cup {<<"#", WS, n, WS, "[", m, "]", "(", m, ".", "md", ")">> : n \in DocNames, m \in DocNames}
    \cup {<<n, WS, "[", n, "]">> : n \in ClassSuffixWords}
    \cup {<<"[", "x", "]", "(", "User", ".", "md", ".", "md", ")">>}

\* The lines the scanner of a file type is run on
LinesOf(ft) ==
    CASE ft = "Markdown"   -> MarkdownLines
      [] ft = "Python"     -> PythonLines
      [] ft = "TypeScript" -> TypeScriptLines
      [] ft = "CSharp"     -> CSharpLines
      [] OTHER             -> {}

\* Tokens of a path
PathTokens == {"/", ".", "md", "py", "ts", "tsx", "cs", "MD", "a"}

\* Paths of at most MaxPathLen tokens
Paths == UNION {[1..n -> PathTokens] : n \in 0..MaxPathLen}

\* Contents handed to analyze_file: one file per language, a second Python file
\* with two imports, and the empty text
Contents ==
    { <<>>,
      << <<"#", WS, "MyClass">>, <<"[", "x", "]", "(", "BaseClass", ".", "md", ")">> >>,
      << <<"class", WS, "User", ":">>, <<WS, "x", "=", "Repo", "(", ")">>, <<"import", WS, "T">> >>,
      << <<"from", WS, "m", WS, "import", WS, "User", ",", WS, "Repo">>, <<"class", WS, "T", ":">> >>,
      << <<"import", WS, "{", WS, "Repo", WS, "}", WS, "from", WS, "x">>,
         <<"export", WS, "class", WS, "User", WS, "{">>, <<WS, "x", ":", WS, "Repo">> >>,
      << <<"public", WS, "class", WS, "Repo">>, <<WS, "public", WS, "User", WS, "x", WS, "{">> >> }

\* No scanner runs
ScanIdle ==
    /\ file_type = "Unknown"
    /\ pc = "done"
    /\ line_num = 0
    /\ classes = {}
    /\ links = <<>>
    /\ current_class = None
    /\ imported_classes = {}
    /\ seen_links = {}

\* No file is being dispatched
DispatchIdle ==
    /\ path = <<>>
    /\ content = <<>>
    /\ result = None

\* No project is being aggregated
AggregateIdle ==
    /\ files = <<>>
    /\ merged = {}

\* No link analysis runs
AnalyzerIdle ==
    /\ all_classes = {}
    /\ all_links = <<>>
    /\ stats = None

(***************************************************************************)
(* SpecLinks: analyze called on an arbitrary bounded input, and once more  *)
(* on an equal input                                                       *)
(***************************************************************************)

InitLinks ==
    /\ all_classes \in SUBSET ClassNames
    /\ \E n \in 0..MaxLinks : all_links \in LinkLists(n)
    /\ stats = None
    /\ ScanIdle
    /\ DispatchIdle
    /\ AggregateIdle

\* LinkAnalyzer::analyze(classes, links)
Analyze ==
    /\ stats = None
    /\ \E set_order \in Orders(all_classes), map_order \in Orders(all_classes) :
          stats' = Some(LinkStatistics(all_classes, all_links, set_order, map_order))
    /\ UNCHANGED <<all_classes, all_links, scanVars, dispatchVars, aggregateVars>>

\* A second call of LinkAnalyzer::analyze on an equal (classes, links) pair: the
\* set handed over and the map built inside are fresh hash containers
AnalyzeAgain ==
    /\ Len(stats) = 1
    /\ \E set_order \in Orders(all_classes), map_order \in Orders(all_classes) :
          stats' = Append(stats, LinkStatistics(all_classes, all_links, set_order, map_order))
    /\ UNCHANGED <<all_classes, all_links, scanVars, dispatchVars, aggregateVars>>

NextLinks == Analyze \/ AnalyzeAgain

SpecLinks == InitLinks /\ [][NextLinks]_vars

(***************************************************************************)
(* SpecScan: one scanner run, one line of the text per step                *)
(***************************************************************************)

\* The locals of the running scanner as one record
ScanState ==
    [ classes |-> classes, links |-> links, current_class |-> current_class,
      imported_classes |-> imported_classes, seen_links |-> seen_links ]

\* The locals after a step
SetScanState(st) ==
    /\ classes' = st.classes
    /\ links' = st.links
    /\ current_class' = st.current_class
    /\ imported_classes' = st.imported_classes
    /\ seen_links' = st.seen_links

InitScanner ==
    /\ file_type \in FileTypes \ {"Unknown"}
    /\ pc = "scan"
    /\ line_num = 0
    /\ classes = InitScan.classes
    /\ links = InitScan.links
    /\ current_class = InitScan.current_class
    /\ imported_classes = InitScan.imported_classes
    /\ seen_links = InitScan.seen_links
    /\ AnalyzerIdle
    /\ DispatchIdle
    /\ AggregateIdle

\* One iteration of the loop of the scanner of file type ft, on the next line
ScanLine(ft) ==
    /\ pc = "scan"
    /\ file_type = ft
    /\ line_num < MaxLines
    /\ \E line \in LinesOf(ft) :
          SetScanState(AnalyzeLine(ft, ScanState, line, line_num + 1))
    /\ line_num' = line_num + 1
    /\ UNCHANGED <<file_type, pc, analyzerVars, dispatchVars, aggregateVars>>

\* parser.rs 43-52 with 119-123
MarkdownLine == ScanLine("Markdown")

\* python_parser.rs 47-84
PythonLine == ScanLine("Python")

\* typescript_parser.rs 53-95
TypeScriptLine == ScanLine("TypeScript")

\* csharp_parser.rs 59-109
CSharpLine == ScanLine("CSharp")

\* The text ends: the code after the loop runs and the result is returned
Return ==
    /\ pc = "scan"
    /\ \E st \in AfterLoop(file_type, ScanState) : SetScanState(st)
    /\ pc' = "done"
    /\ UNCHANGED <<file_type, line_num, analyzerVars, dispatchVars, aggregateVars>>

NextScan == MarkdownLine \/ PythonLine \/ TypeScriptLine \/ CSharpLine \/ Return

SpecScan == InitScanner /\ [][NextScan]_vars

(***************************************************************************)
(* SpecDispatch: analyze_file(content, path) called, and once more         *)
(***************************************************************************)

InitDispatch ==
    /\ path \in Paths
    /\ content \in Contents
    /\ result = None
    /\ file_type = "Unknown"
    /\ pc = "scan"
    /\ line_num = 0
    /\ classes = {}
    /\ links = <<>>
    /\ current_class = None
    /\ imported_classes = {}
    /\ seen_links = {}
    /\ AnalyzerIdle
    /\ AggregateIdle

\* file_analyzer.rs 45-75: file_type records what detect_file_type returned
AnalyzeFile ==
    /\ result = None
    /\ file_type' = DetectFileType(path)
    /\ \E r \in AnalyzeFileResults(content, path) : result' = Some(r)
    /\ pc' = "done"
    /\ UNCHANGED <<path, content, line_num, classes, links, current_class,
                   imported_classes, seen_links, analyzerVars, aggregateVars>>

\* A second call of analyze_file on the same content and path
AnalyzeFileAgain ==
    /\ Len(result) = 1
    /\ \E r \in AnalyzeFileResults(content, path) : result' = Append(result, r)
    /\ UNCHANGED <<path, content, file_type, pc, line_num, classes, links, current_class,
                   imported_classes, seen_links, analyzerVars, aggregateVars>>

NextDispatch == AnalyzeFile \/ AnalyzeFileAgain

SpecDispatch == InitDispatch /\ [][NextDispatch]_vars

(***************************************************************************)
(* SpecAggregate: per-file results merged in any file order, then analyzed *)
(***************************************************************************)

InitAggregate ==
    /\ \E n \in 0..MaxFiles : files \in [1..n -> FileResults]
    /\ merged = {}
    /\ AnalyzerIdle
    /\ ScanIdle
    /\ DispatchIdle

\* tests/integration_test.rs 70-79: one iteration of the loop over read_dir, whose
\* order is the file system's
MergeFile ==
    /\ stats = None
    /\ \E f \in (1..Len(files)) \ merged :
          LET acc == Extend([classes |-> all_classes, links |-> all_links], files[f])
          IN  /\ all_classes' = acc.classes
              /\ all_links' = acc.links
              /\ merged' = merged \cup {f}
    /\ UNCHANGED <<files, stats, scanVars, dispatchVars>>

\* tests/integration_test.rs 81: analyze is called once every file is merged
AnalyzeProject ==
    /\ merged = 1..Len(files)
    /\ Analyze

NextAggregate == MergeFile \/ AnalyzeProject

SpecAggregate == InitAggregate /\ [][NextAggregate]_vars

(***************************************************************************)
(* Claims about the analyzer (checked under SpecLinks)                     *)
(***************************************************************************)

Analyzed == stats # None

\* Positions of the input edge list that satisfy P
LinkIdx(P(_)) == {i \in 1..Len(all_links) : P(all_links[i])}

NumLinks(P(_)) == Cardinality(LinkIdx(P))

RECURSIVE SumOver(_, _)
\* Sum of f[c] over the finite set S
SumOver(f, S) ==
    IF S = {} THEN 0
    ELSE LET c == CHOOSE x \in S : TRUE IN f[c] + SumOver(f, S \ {c})

SumOutgoing == SumOver([c \in all_classes |-> stats[1].class_link_counts[c].outgoing_links], all_classes)

SumIncoming == SumOver([c \in all_classes |-> stats[1].class_link_counts[c].incoming_links], all_classes)

\* C1: after analyze, every declared name d has outgoing count = number of edges
\* (with multiplicity) whose source is d and incoming count = number of edges whose
\* target is d, whether or not the edge's other endpoint is declared.
C1_DegreeCounts ==
    Analyzed =>
        \A d \in all_classes :
            /\ stats[1].class_link_counts[d].outgoing_links = NumLinks(LAMBDA l : l.from_class = d)
            /\ stats[1].class_link_counts[d].incoming_links = NumLinks(LAMBDA l : l.to_class = d)

\* C1 witness: a declared name with a duplicated outgoing edge and an edge to an
\* undeclared name has been counted.
C1_Witness ==
    /\ Analyzed
    /\ \E d \in all_classes :
          /\ stats[1].class_link_counts[d].outgoing_links = 3
          /\ \E i, j \in 1..Len(all_links) :
                /\ i # j
                /\ all_links[i].from_class = d /\ all_links[j].from_class = d
                /\ all_links[i].to_class = all_links[j].to_class
          /\ \E i \in 1..Len(all_links) :
                all_links[i].from_class = d /\ all_links[i].to_class \notin all_classes

\* C2: the isolated list holds exactly the declared names that are an endpoint of no
\* edge, each once.
C2_IsolatedExact ==
    Analyzed =>
        /\ Range(stats[1].isolated_classes) =
              {d \in all_classes : NumLinks(LAMBDA l : l.from_class = d \/ l.to_class = d) = 0}
        /\ Len(stats[1].isolated_classes) = Cardinality(Range(stats[1].isolated_classes))

\* C2 witness: one declared name is isolated, another is only ever a target, and an
\* undeclared name occurs in an edge.
C2_Witness ==
    /\ Analyzed
    /\ Len(stats[1].isolated_classes) = 1
    /\ \E d \in all_classes :
          /\ NumLinks(LAMBDA l : l.from_class = d) = 0
          /\ NumLinks(LAMBDA l : l.to_class = d) > 0
    /\ NumLinks(LAMBDA l : l.from_class \notin all_classes) > 0

\* The hub field h agrees with the per-class key k: present iff some declared name
\* has a positive key, and then a declared name with its own key, which is maximal.
HubAgrees(h, k(_)) ==
    /\ IsSome(h) <=> \E d \in all_classes : k(d) > 0
    /\ IsSome(h) =>
          /\ h[1][1] \in all_classes
          /\ h[1][2] = k(h[1][1])
          /\ \A d \in all_classes : h[1][2] >= k(d)

\* C3: most_linked_class is present iff some declared name has incoming count > 0,
\* and then it is (d, n) with d declared, n = d's incoming count, n >= every other
\* declared name's incoming count; the same for most_linking_class with outgoing.
C3_HubsAreMaxima ==
    Analyzed =>
        /\ HubAgrees(stats[1].most_linked_class,
                     LAMBDA d : stats[1].class_link_counts[d].incoming_links)
        /\ HubAgrees(stats[1].most_linking_class,
                     LAMBDA d : stats[1].class_link_counts[d].outgoing_links)

\* C3 witness: a most linked class with count 2 is reported while another declared
\* name has incoming count 1, and no most linking class exists (all sources undeclared).
C3_Witness ==
    /\ Analyzed
    /\ IsSome(stats[1].most_linked_class)
    /\ stats[1].most_linked_class[1][2] = 2
    /\ \E d \in all_classes : stats[1].class_link_counts[d].incoming_links = 1
    /\ stats[1].most_linking_class = None

\* C4: a nonempty declaration set with an empty edge list gives no most linked class,
\* no most linking class, and an isolated list holding every declared name.
C4_ZeroEdgeGraph ==
    (Analyzed /\ all_classes # {} /\ Len(all_links) = 0) =>
        /\ stats[1].most_linked_class = None
        /\ stats[1].most_linking_class = None
        /\ Range(stats[1].isolated_classes) = all_classes

\* C4 witness: three declarations and no edge have been analyzed.
C4_Witness ==
    /\ Analyzed
    /\ Cardinality(all_classes) = 3
    /\ Len(all_links) = 0

\* C5 as stated: the sum of outgoing counts over D equals the sum of incoming counts
\* over D, and both equal the number of edges with both endpoints in D.
C5_Original ==
    Analyzed =>
        /\ SumOutgoing = SumIncoming
        /\ SumOutgoing = NumLinks(LAMBDA l : l.from_class \in all_classes /\ l.to_class \in all_classes)

\* C5 amended: the sum of outgoing counts over D is the number of edges with both
\* endpoints in D plus the number of edges with only the source in D; the sum of
\* incoming counts is the number with both endpoints in D plus the number with only
\* the target in D.
C5_DegreeSums ==
    Analyzed =>
        /\ SumOutgoing =
              NumLinks(LAMBDA l : l.from_class \in all_classes /\ l.to_class \in all_classes)
              + NumLinks(LAMBDA l : l.from_class \in all_classes /\ l.to_class \notin all_classes)
        /\ SumIncoming =
              NumLinks(LAMBDA l : l.from_class \in all_classes /\ l.to_class \in all_classes)
              + NumLinks(LAMBDA l : l.from_class \notin all_classes /\ l.to_class \in all_classes)

\* C5 witness: the three kinds of edge occur together and the two sums differ.
C5_Witness ==
    /\ Analyzed
    /\ NumLinks(LAMBDA l : l.from_class \in all_classes /\ l.to_class \in all_classes) = 1
    /\ NumLinks(LAMBDA l : l.from_class \in all_classes /\ l.to_class \notin all_classes) = 2
    /\ NumLinks(LAMBDA l : l.from_class \notin all_classes /\ l.to_class \in all_classes) = 0
    /\ SumOutgoing = 3
    /\ SumIncoming = 1

\* C6 as stated: the sum of all outgoing counts equals the total number of edges,
\* and so does the sum of all incoming counts.
C6_Original ==
    Analyzed =>
        /\ SumOutgoing = Len(all_links)
        /\ SumIncoming = Len(all_links)

\* C6 amended: the sum of all outgoing counts equals the total number of edges less
\* those whose source is undeclared, and the sum of all incoming counts equals the
\* total number of edges less those whose target is undeclared.
C6_SumsVersusEdgeCount ==
    Analyzed =>
        /\ SumOutgoing = Len(all_links) - NumLinks(LAMBDA l : l.from_class \notin all_classes)
        /\ SumIncoming = Len(all_links) - NumLinks(LAMBDA l : l.to_class \notin all_classes)

\* C6 witness: an edge between two undeclared names and a self edge of a declared
\* name have been counted.
C6_Witness ==
    /\ Analyzed
    /\ Len(all_links) = 3
    /\ NumLinks(LAMBDA l : l.from_class \notin all_classes /\ l.to_class \notin all_classes) = 1
    /\ NumLinks(LAMBDA l : l.from_class \in all_classes /\ l.to_class = l.from_class) = 1
    /\ SumOutgoing = 2
    /\ SumIncoming = 1

\* C7: total_classes equals |D| and the key set of the count map is exactly D; an
\* edge naming an undeclared source or target creates no entry.
C7_KeysAreDeclarations ==
    Analyzed =>
        /\ stats[1].total_classes = Cardinality(all_classes)
        /\ DOMAIN stats[1].class_link_counts = all_classes

\* C7 witness: edges with an undeclared source and with an undeclared target were
\* analyzed next to two declared names, one of them in no edge.
C7_Witness ==
    /\ Analyzed
    /\ Cardinality(all_classes) = 2
    /\ NumLinks(LAMBDA l : l.from_class \notin all_classes) > 0
    /\ NumLinks(LAMBDA l : l.to_class \notin all_classes) > 0
    /\ Len(stats[1].isolated_classes) = 1

\* Both calls of analyze have returned
AnalyzedTwice == Len(stats) = 2

\* The hub fields a and b of two runs agree up to the tie-break: both absent, or
\* both present with the same count and, when the names differ, each name holds
\* that count under the key k (several declarations share the maximum).
HubsAgreeUpToTie(a, b, k(_)) ==
    /\ IsSome(a) <=> IsSome(b)
    /\ IsSome(a) =>
          /\ a[1][2] = b[1][2]
          /\ a[1][1] # b[1][1] =>
                /\ k(a[1][1]) = a[1][2]
                /\ k(b[1][1]) = a[1][2]

\* Everything two runs are said to share apart from the isolated list
SameCountsAndHubs(r1, r2) ==
    /\ r1.total_classes = r2.total_classes
    /\ r1.class_link_counts = r2.class_link_counts
    /\ HubsAgreeUpToTie(r1.most_linked_class, r2.most_linked_class,
                        LAMBDA d : r1.class_link_counts[d].incoming_links)
    /\ HubsAgreeUpToTie(r1.most_linking_class, r2.most_linking_class,
                        LAMBDA d : r1.class_link_counts[d].outgoing_links)

\* C11 as stated: two runs of analyze on the identical (declarations, edges) pair
\* give the same total_classes, the same isolated list, the same count map and the
\* same hub fields, except for the name in a hub field under a tie.
C11_Original ==
    AnalyzedTwice =>
        /\ SameCountsAndHubs(stats[1], stats[2])
        /\ stats[1].isolated_classes = stats[2].isolated_classes

\* C11 amended: two runs of analyze on the identical (declarations, edges) pair give
\* the same total_classes, the same count map, hub fields that agree except for the
\* name under a tie, and isolated lists that hold the same names, each once; the
\* order of the isolated list may differ between the runs.
C11_Idempotence ==
    AnalyzedTwice =>
        /\ SameCountsAndHubs(stats[1], stats[2])
        /\ Range(stats[1].isolated_classes) = Range(stats[2].isolated_classes)
        /\ Len(stats[1].isolated_classes) = Len(stats[2].isolated_classes)
        /\ Len(stats[1].isolated_classes) = Cardinality(Range(stats[1].isolated_classes))

\* C11 witness: the two runs report different most linked classes under a tie, with
\* equal count maps and an isolated name next to the tied ones.
C11_Witness ==
    /\ AnalyzedTwice
    /\ IsSome(stats[1].most_linking_class)
    /\ IsSome(stats[1].most_linked_class)
    /\ IsSome(stats[2].most_linked_class)
    /\ stats[1].most_linked_class[1][1] # stats[2].most_linked_class[1][1]
    /\ Len(stats[1].isolated_classes) >= 1
    /\ stats[1].class_link_counts = stats[2].class_link_counts

(***************************************************************************)
(* Claims about the aggregation (checked under SpecAggregate)              *)
(***************************************************************************)

\* The hub fields a and b hold the same count, or are both absent
SameHubCount(a, b) ==
    /\ IsSome(a) <=> IsSome(b)
    /\ IsSome(a) => a[1][2] = b[1][2]

\* What merges in different file orders are said to share
SameUpToOrder(r1, r2) ==
    /\ r1.total_classes = r2.total_classes
    /\ Range(r1.isolated_classes) = Range(r2.isolated_classes)
    /\ r1.class_link_counts = r2.class_link_counts
    /\ SameHubCount(r1.most_linked_class, r2.most_linked_class)
    /\ SameHubCount(r1.most_linking_class, r2.most_linking_class)

\* The statistics analyze can return for the files merged in index order
StatisticsInIndexOrder ==
    LET agg == AggregateFrom([classes |-> {}, links |-> <<>>], files, 1)
    IN  {LinkStatistics(agg.classes, agg.links, so, mo) :
             so \in Orders(agg.classes), mo \in Orders(agg.classes)}

\* C12: whatever file order the per-file results were merged in (union of the
\* declarations, concatenation of the edge lists), analyze returns the same
\* total_classes, the same set of isolated names, the same count map and the same
\* hub counts as it does for the merge in index order, hence the same for any two
\* file orders.
C12_OrderIndependent ==
    (Analyzed /\ merged = 1..Len(files)) =>
        \A other \in StatisticsInIndexOrder : SameUpToOrder(stats[1], other)

\* C12 witness: two files with different edges were merged against their index
\* order and analyzed, one of them declaring what the other refers to.
C12_Witness ==
    /\ Analyzed
    /\ Len(files) = 2
    /\ merged = {1, 2}
    /\ Len(all_links) = 2
    /\ all_links[1] = files[2].links[1]
    /\ all_links[1].from_class # all_links[2].from_class
    /\ all_links[1].to_class \in files[1].classes \ files[2].classes
    /\ stats[1].total_classes = 2

(***************************************************************************)
(* Claims about the scanners (checked under SpecScan)                      *)
(***************************************************************************)

\* Two positions of links hold the same (source, target) pair
DuplicatePair ==
    \E i, j \in 1..Len(links) :
        /\ i < j
        /\ links[i].from_class = links[j].from_class
        /\ links[i].to_class = links[j].to_class

\* C8 as stated: for each of the four scanners the edge list of one file never holds
\* two edges with the same (source, target) pair, so that the one edge kept for a
\* pair is the one pushed on the first line the pair was observed on.
C8_NoDuplicatePairs == ~DuplicatePair

\* C8, the scanners that do check for the pair before pushing: the Markdown,
\* TypeScript and C# edge lists never hold a pair twice.
C8_DedupOutsidePython == file_type # "Python" => ~DuplicatePair

\* C9: every edge of a scanner's result has a source that is a member of the
\* declaration set of that same result (for Markdown, the set extract_classes builds
\* from the same text).
C9_SourcesAreDeclared ==
    \A i \in 1..Len(links) : links[i].from_class \in classes

\* C9 witness: a Markdown result whose edges start at two different headers.
C9_Witness ==
    /\ pc = "done"
    /\ file_type = "Markdown"
    /\ \E i, j \in 1..Len(links) : links[i].from_class # links[j].from_class

\* The step that ends the scan of a file of type ft
Returns(ft) == file_type = ft /\ pc = "scan" /\ pc' = "done"

\* C14 as stated: after the full line scan of a C# file with at least one
\* declaration, every import candidate gathered from a using line has an edge from
\* the last seen declaration context, the post-pass adding it with line number 1
\* where the line scan produced none.
C14_Original ==
    (file_type = "CSharp" /\ pc = "done" /\ IsSome(current_class)) =>
        \A c \in imported_classes :
            \E i \in 1..Len(links) :
                /\ links[i].from_class = current_class[1]
                /\ links[i].to_class = c

\* C14 amended: the C# scanner has no post-pass; when the line scan of a C# file
\* ends, the result holds exactly the declarations and the edges of the line scan,
\* and an import candidate no line referred to gets no edge.
C14_NoCSharpPostPass ==
    [][Returns("CSharp") => (links' = links /\ classes' = classes)]_vars

\* C14 witness: a C# scan has returned with a declaration and an import candidate
\* other than the last context, and no edge leads to the candidate.
C14_Witness ==
    /\ file_type = "CSharp"
    /\ pc = "done"
    /\ IsSome(current_class)
    /\ \E c \in imported_classes :
          /\ c # current_class[1]
          /\ \A i \in 1..Len(links) : links[i].to_class # c
    /\ Len(links) > 0

\* The edges a step appended to links
NewLinks == SubSeq(links', Len(links) + 1, Len(links'))

\* A step kept every edge emitted before it, in place
KeepsLinks == Len(links') >= Len(links) /\ SubSeq(links', 1, Len(links)) = links

\* C15: when the scan of a Python file ends, the post-pass leaves the declarations,
\* the context and the edges of the line scan alone and, with a class declared,
\* appends one edge (last declared class, candidate, line 1) for exactly the import
\* candidates, gathered anywhere in the file, that had no edge from the last declared
\* class yet, so that afterwards every candidate has such an edge and no appended
\* edge starts at an earlier class; with no class declared it appends nothing.
C15_PythonPostPass ==
    [][Returns("Python") =>
          /\ KeepsLinks
          /\ UNCHANGED <<classes, current_class, imported_classes>>
          /\ current_class = None => links' = links
          /\ IsSome(current_class) =>
                /\ \A c \in imported_classes : AlreadyExists(links', current_class[1], c)
                /\ \A i \in 1..Len(NewLinks) :
                      /\ NewLinks[i].from_class = current_class[1]
                      /\ NewLinks[i].line_number = 1
                      /\ NewLinks[i].to_class \in imported_classes
                      /\ ~AlreadyExists(links, current_class[1], NewLinks[i].to_class)
                      /\ \A j \in 1..Len(NewLinks) :
                            NewLinks[j].to_class = NewLinks[i].to_class => j = i
    ]_vars

\* C15 witness: a Python scan of two classes has returned; the import candidate is
\* the class declared first, the only edge is the one from the class declared last
\* to the candidate, with line number 1.
C15_Witness ==
    /\ file_type = "Python"
    /\ pc = "done"
    /\ Cardinality(classes) = 2
    /\ IsSome(current_class)
    /\ Len(links) = 1
    /\ links[1].from_class = current_class[1]
    /\ links[1].to_class \in imported_classes \cap classes
    /\ links[1].to_class # current_class[1]
    /\ links[1].line_number = 1
    /\ line_num >= 3

\* C15 witness of the other cases: import candidates were gathered and no class was
\* declared, so that no edge was emitted.
C15_NoClassNoEdge ==
    /\ file_type = "Python"
    /\ pc = "done"
    /\ classes = {}
    /\ Cardinality(imported_classes) >= 2
    /\ links = <<>>

\* The step that scans one line, the one numbered line_num'
ScansLine == pc = "scan" /\ pc' = "scan" /\ line_num' = line_num + 1

\* C16: in the forward pass of each of the four scanners, a line scanned while no
\* declaration line has been seen emits no edge, a context that is set stays set,
\* the context after line k is the name declared on line k when line k declares a
\* name and else the context from before, and every edge emitted on line k starts
\* at that context and carries line number k; edges emitted earlier stay in place.
C16_ContextAndLineNumbers ==
    [][ScansLine =>
          /\ KeepsLinks
          /\ classes' = {} => (links' = links /\ current_class' = None)
          /\ IsSome(current_class) => IsSome(current_class')
          /\ classes \subseteq classes'
          /\ classes' # classes => classes' = classes \cup {current_class'[1]}
          /\ current_class' # current_class => current_class'[1] \in classes'
          /\ \A i \in 1..Len(NewLinks) :
                /\ NewLinks[i].from_class = current_class'[1]
                /\ NewLinks[i].line_number = line_num'
    ]_vars

\* C16 witness: a Markdown scan has emitted an edge on line 2 from the first header
\* and another on line 4 from a second header, which is the context now.
C16_Witness ==
    /\ file_type = "Markdown"
    /\ pc = "scan"
    /\ line_num = 4
    /\ Len(links) = 2
    /\ links[1].line_number = 2
    /\ links[2].line_number = 4
    /\ links[1].from_class # links[2].from_class
    /\ current_class = Some(links[2].from_class)
    /\ {links[1].from_class, links[2].from_class} \subseteq classes

\* C17: in the TypeScript and C# scanners the target of every edge emitted on a
\* line is, once that line's declaration and import are taken in, a declared name of
\* the file, an import candidate of the file or (C# only) a name of the fixed
\* allow-list; a name that is none of these when its line is scanned is not
\* emitted, whatever later lines declare or import.
C17_KnownTargetsOnly ==
    [][(ScansLine /\ file_type \in {"TypeScript", "CSharp"}) =>
          \A i \in 1..Len(NewLinks) :
              NewLinks[i].to_class \in
                  classes' \cup imported_classes'
                      \cup (IF file_type = "CSharp" THEN CsCommonTypes ELSE {})
    ]_vars

\* C17 witness: a TypeScript scan declared one class, imported another name on a
\* later line, and holds a single edge to the imported name, emitted on line 4.
C17_Witness ==
    /\ file_type = "TypeScript"
    /\ pc = "scan"
    /\ line_num = 4
    /\ Cardinality(classes) = 1
    /\ Len(links) = 1
    /\ links[1].to_class \in imported_classes \ classes
    /\ links[1].line_number = 4

\* C17 witness for C#: an edge leads to a name of the allow-list that the file
\* neither declares nor imports, while the file does import another name.
C17_AllowListWitness ==
    /\ file_type = "CSharp"
    /\ imported_classes # {}
    /\ \E i \in 1..Len(links) :
          /\ links[i].to_class \in CsCommonTypes
          /\ links[i].to_class \notin classes \cup imported_classes

\* The targets the markdown link syntax of a line names
LinkTargets(line) ==
    {Join(TrimEndMd(MdLinkRegexFrom(line, 1)[i])) : i \in 1..Len(MdLinkRegexFrom(line, 1))}

\* The line that holds only the link [X](X.md)
OnlyLink(X) == <<"[", X, "]", "(", X, ".", "md", ")">>

\* The edges of ls from H to X
EdgesBetween(ls, H, X) == {i \in 1..Len(ls) : ls[i].from_class = H /\ ls[i].to_class = X}

\* C18: whatever line the Markdown scanner takes next, with H the header context
\* for that line, (i) an edge the line emits to a name that no link of the line
\* targets comes from a bare mention of an identifier ending in "Class" that differs
\* from H and does not occur as [name] on the line, and (ii) if the line holds only
\* the link [X](X.md), the edges then hold exactly one edge H -> X, which is the one
\* emitted by this line with this line's number unless an earlier line under H
\* produced the pair already.
C18_BareMentionRule ==
    (file_type = "Markdown" /\ pc = "scan") =>
        \A line \in MarkdownLines :
            LET n == line_num + 1
                st == MdAnalyzeLine(ScanState, line, n)
                new == SubSeq(st.links, Len(links) + 1, Len(st.links))
            IN  /\ SubSeq(st.links, 1, Len(links)) = links
                /\ \A i \in 1..Len(new) :
                      new[i].to_class \notin LinkTargets(line) =>
                          /\ new[i].to_class \in Range(MdCodeClassRegex(line))
                          /\ new[i].to_class # st.current_class[1]
                          /\ ~ContainsBracketed(line, new[i].to_class)
                /\ \A X \in DocNames :
                      (line = OnlyLink(X) /\ IsSome(current_class)) =>
                          LET H == current_class[1]
                          IN  /\ Cardinality(EdgesBetween(st.links, H, X)) = 1
                              /\ new = IF EdgesBetween(links, H, X) = {}
                                       THEN <<ClassLink(H, X, n)>> ELSE <<>>

\* C18 witness: under a header H the line holding only [X](X.md), X ending in
\* "Class", was scanned as line 2 and the edges are exactly H -> X with line number
\* 2; the scan goes on.
C18_Witness ==
    /\ file_type = "Markdown"
    /\ pc = "scan"
    /\ line_num = 2
    /\ IsSome(current_class)
    /\ Len(links) = 1
    /\ links[1].from_class = current_class[1]
    /\ links[1].to_class \in ClassSuffixWords
    /\ links[1].line_number = 2
    /\ MdAnalyzeLine([InitScan EXCEPT !.classes = classes, !.current_class = current_class],
                     OnlyLink(links[1].to_class), 2).links = links

\* The positions of ls that hold an edge from a name to itself
SelfEdges(ls) == {i \in 1..Len(ls) : ls[i].to_class = ls[i].from_class}

\* C19 as stated: no scanner ever returns a self-edge; every edge of a per-file
\* result has a target different from its source, the edges from markdown link
\* syntax and from the Python import post-pass included.
C19_Original == SelfEdges(links) = {}

\* C19 amended: the TypeScript and C# scanners, the line scan of the Python scanner
\* and the bare mentions of the Markdown scanner never emit a self-edge; a self-edge
\* is emitted only by markdown link syntax whose target is the header context, and
\* by the Python post-pass when the last declared class is an import candidate (an
\* edge with line number 1).
C19_SelfEdgesOnlyFromLinksAndImports ==
    /\ file_type \in {"TypeScript", "CSharp"} => SelfEdges(links) = {}
    /\ (file_type = "Python" /\ pc = "scan") => SelfEdges(links) = {}
    /\ (file_type = "Python" /\ pc = "done") =>
          \A i \in SelfEdges(links) :
              /\ links[i].line_number = 1
              /\ links[i].to_class \in imported_classes
              /\ current_class = Some(links[i].from_class)
    /\ (file_type = "Markdown" /\ pc = "scan") =>
          \A line \in MarkdownLines :
              LET st == MdAnalyzeLine(ScanState, line, line_num + 1)
              IN  \A i \in SelfEdges(st.links) :
                      i > Len(links) => st.links[i].to_class \in LinkTargets(line)

\* C19 witness: a Python scan has returned an edge from the last declared class to
\* itself with line number 1 next to an edge of the line scan to another name.
C19_Witness ==
    /\ file_type = "Python"
    /\ pc = "done"
    /\ Len(links) = 2
    /\ links[1].to_class # links[1].from_class
    /\ links[1].line_number > 1
    /\ links[2].to_class = links[2].from_class
    /\ links[2].line_number = 1

\* C19 witness for Markdown: the scan holds an edge from a header to itself.
C19_MarkdownSelfEdge ==
    /\ file_type = "Markdown"
    /\ line_num = 2
    /\ Len(links) = 1
    /\ links[1].to_class = links[1].from_class
    /\ links[1].line_number = 2

(***************************************************************************)
(* Claims about the dispatcher (checked under SpecDispatch)                *)
(***************************************************************************)

RECURSIVE StripTrailing(_)
\* The path without its trailing separators and trailing "." components
StripTrailing(p) ==
    IF Len(p) >= 1 /\ p[Len(p)] = "/" THEN StripTrailing(Slice(p, 1, Len(p) - 1))
    ELSE IF Len(p) >= 2 /\ p[Len(p)] = "." /\ p[Len(p) - 1] = "/"
         THEN StripTrailing(Slice(p, 1, Len(p) - 2))
         ELSE p

\* The path's last component ends in a dot followed by exactly the word e, and the
\* dot is not the component's first character
EndsInDot(p, e) ==
    LET q == StripTrailing(p)
    IN  /\ Len(q) >= 3
        /\ q[Len(q)] = e
        /\ q[Len(q) - 1] = "."
        /\ q[Len(q) - 2] # "/"

\* C10: detect_file_type maps every path to exactly one of Markdown, Python,
\* TypeScript, CSharp, Unknown by its extension (md, py, ts or tsx, cs; anything
\* else, a different letter case or no extension included, is Unknown), and
\* analyze_file on a path classified Unknown returns an empty declaration set and
\* an empty edge list, for every content.
C10_DispatchByExtension ==
    result # None =>
        /\ file_type \in FileTypes
        /\ file_type = "Markdown" <=> EndsInDot(path, "md")
        /\ file_type = "Python" <=> EndsInDot(path, "py")
        /\ file_type = "TypeScript" <=> (EndsInDot(path, "ts") \/ EndsInDot(path, "tsx"))
        /\ file_type = "CSharp" <=> EndsInDot(path, "cs")
        /\ file_type = "Unknown" <=> \A e \in {"md", "py", "ts", "tsx", "cs"} : ~EndsInDot(path, e)
        /\ file_type = "Unknown" =>
              \A i \in 1..Len(result) : result[i] = [classes |-> {}, links |-> <<>>]

\* C10 witness: a path with the extension MD was classified Unknown and a text with a
\* header and a link was answered with the empty result.
C10_Witness ==
    /\ result = Some([classes |-> {}, links |-> <<>>])
    /\ file_type = "Unknown"
    /\ EndsInDot(path, "MD")
    /\ Len(content) = 2
    /\ content[1] = <<"#", WS, "MyClass">>

\* Both calls of analyze_file have returned
AnalyzedFileTwice == Len(result) = 2

\* C13 as stated: two invocations of analyze_file on the same content and path
\* return the same declaration set and the same ordered sequence of edges (same
\* edges, same line numbers, same order).
C13_SameResultTwice ==
    AnalyzedFileTwice =>
        /\ result[1].classes = result[2].classes
        /\ result[1].links = result[2].links

\* C13, what the two invocations do share: the declaration set and the edges as a
\* collection, in the same order too for every scanner but Python's.
C13_SameUpToPostPassOrder ==
    AnalyzedFileTwice =>
        /\ result[1].classes = result[2].classes
        /\ Range(result[1].links) = Range(result[2].links)
        /\ Len(result[1].links) = Len(result[2].links)
        /\ file_type # "Python" => result[1].links = result[2].links

====
